---------------------------- MODULE Spec2Model ----------------------------
(***************************************************************************)
(* Model of the CTATDragSource drag-and-drop component                     *)
(* (src/dragsource-old.js, last revision, lines 1014-1461; the same        *)
(* handlers appear in src/dragbp.js).                                      *)
(*                                                                         *)
(* The document is a set of container elements (CTATDragSource             *)
(* components) whose child nodes are draggable items or whitespace text    *)
(* nodes.  Strings that are hashed (item ids) are sequences of character   *)
(* codes; a text node is the node without an id, written << >>.           *)
(***************************************************************************)
EXTENDS Integers, Sequences, FiniteSets, TLC

(***************************************************************************)
(* Bounds of the model.                                                    *)
(***************************************************************************)
\* drag gestures started in one behaviour
MaxGestures == 2
\* calls of the host (setEnabled, Add, updateSAI) in one behaviour
MaxCalls == 2
\* largest data-ctat-max-cardinality value tried
MaxLimit == 2
\* largest data-ctat-max-overflow value tried
MaxOverflow == 1
\* most child nodes initializeHTMLComponent builds in a component
MaxDefaultKids == 1

\* longest item id tried for the hash
MaxIdLen == 5

(***************************************************************************)
(* The page: container ids, their attributes, the initial items.           *)
(***************************************************************************)
Containers == {"S", "R", "D", "F", "T", "E"}

\* CTATDragSource.default_groupname
default_groupname == "DragNDropGroup"

\* the name attribute of each container (set in init when absent)
groupname == [S |-> default_groupname, R |-> default_groupname,
              D |-> default_groupname, F |-> default_groupname,
              T |-> default_groupname, E |-> "OtherGroup"]

\* the data-ctat-purpose attribute; "" is the absent attribute
purposeAttr == [S |-> "source", R |-> "source", D |-> "", F |-> "destination",
                T |-> "trashcan", E |-> "destination"]

\* get_purpose: the attribute, or "destination" when it is absent or empty
get_purpose(c) == IF purposeAttr[c] # "" THEN purposeAttr[c] ELSE "destination"

\* the id of the item the page starts with, as character codes: "x"
IdX == <<120>>

\* a whitespace text node of the markup: a child node without an id
TextNode == << >>

\* a numeric attribute is absent (parseInt gives NaN), written {}, or {n}
NoAttr == {}
IntAttr(n) == {n}
isNaN(a) == a = {}
parseInt(a) == CHOOSE n \in a : TRUE

(***************************************************************************)
(* hash: the 32-bit string hash.  TLC's integers are 32 bits wide, so the  *)
(* shift, the subtraction and the addition wrap step by step; the sum of   *)
(* the code is reduced once by a&a, which is the same residue.             *)
(***************************************************************************)
MinInt32 == -2147483647 - 1
MaxInt32 == 2147483647

\* x + y reduced to a signed 32-bit integer, without leaving 32 bits
Add32(x, y) ==
    IF x >= 0 /\ y >= 0 /\ x > MaxInt32 - y
    THEN ((x - MaxInt32) - 1) + ((y - MaxInt32) - 1)
    ELSE IF x < 0 /\ y < 0 /\ x < MinInt32 - y
         THEN ((x + MaxInt32) + 1) + ((y + MaxInt32) + 1)
         ELSE x + y

\* -x as a signed 32-bit integer
Neg32(x) == IF x = MinInt32 THEN MinInt32 ELSE 0 - x

\* a << 5: the low 27 bits of a move up by five, bit 26 becomes the sign
Shl5(a) ==
    LET r == a % 134217728
    IN  IF r >= 67108864 THEN ((r - 67108864) * 32 - MaxInt32) - 1
        ELSE r * 32

\* hashStep with a<<5 alone: 32*a for 31*a
hashStepShift(a, b) == Add32(Shl5(a), b)

\* one step of the reduce: a = ((a<<5)-a) + b.charCodeAt(0); return a&a
hashStep(a, b) == Add32(Add32(Shl5(a), Neg32(a)), b)

RECURSIVE hashFrom(_, _)
hashFrom(a, s) == IF s = << >> THEN a ELSE hashFrom(hashStep(a, Head(s)), Tail(s))

hash(s) == hashFrom(0, s)

(***************************************************************************)
(* Strings.                                                                *)
(***************************************************************************)
\* the "--" between the original's id and the generated number
Separator == <<45, 45>>

\* Digits of a generator that does not advance: always "0"
DigitsStuck(n) == <<48>>

\* the decimal digits of a natural number, as character codes
RECURSIVE Digits(_)
Digits(n) == IF n < 10 THEN <<48 + n>> ELSE Digits(n \div 10) \o <<48 + (n % 10)>>

(***************************************************************************)
(* State.                                                                  *)
(***************************************************************************)
VARIABLES
    children,       \* container -> sequence of child nodes (item ids, text nodes)
    item,           \* live item id -> its attributes
    enabled,        \* container -> getEnabled()
    maxCardinality, \* container -> data-ctat-max-cardinality
    maxOverflow,    \* container -> data-ctat-max-overflow
    disableOnCorrect, \* getDisableOnCorrect()
    initialized,    \* the containers whose init() has run
    onload,         \* the container whose callback window.onload holds, if any
    dragging,       \* CTATDragSource.dragging: hash -> {id, group, source}
    gensym,         \* the counter behind CTATGlobalFunctions.gensym.div_id()
    phase,          \* "idle", "dragging", "dropped" (drop delivered, dragend due)
    gestures,       \* drag gestures started so far
    dt,             \* e.dataTransfer of the gesture in progress
    lastEval,       \* the container under the pointer and its last dragover verdict
    validDrop,      \* containers carrying the class CTATDragSource--valid-drop
    actions,        \* the actions handed to processAction, oldest first
    pending,        \* ids whose removal animation is running, oldest first
    errors,         \* handlers that ended in an uncaught TypeError
    calls           \* calls of the host so far

vars == <<children, item, enabled, maxCardinality, maxOverflow, disableOnCorrect,
          initialized, onload, dragging, gensym, phase, gestures, dt, lastEval,
          validDrop, actions, pending, errors, calls>>

\* what no handler changes once the page is loaded
config == <<maxCardinality, maxOverflow, disableOnCorrect, initialized, onload>>

(***************************************************************************)
(* The DOM.                                                                *)
(***************************************************************************)
IsElement(n) == n # TextNode

\* $(c).children() in the document ch: the element children, in order
ElementsOf(ch, c) == SelectSeq(ch[c], IsElement)

Elements(c) == ElementsOf(children, c)

Range(s) == {s[i] : i \in DOMAIN s}

\* the ids of the items in the document
Live == DOMAIN item

\* document.getElementById(id) finds something
InDocument(id) == id \in Live

\* the container of the document ch whose child the item is
ParentIn(ch, id) == CHOOSE c \in Containers : id \in Range(ch[c])

Parent(id) == ParentIn(children, id)

Without(s, id) == SelectSeq(s, LAMBDA n : n # id)

\* parent.removeChild(id), wherever id is
Detach(ch, id) == [c \in Containers |-> Without(ch[c], id)]

\* AppendChild that leaves id in its previous parent as well
AppendChildKeep(ch, c, id) == [ch EXCEPT ![c] = Append(@, id)]

\* c.appendChild(id): id leaves its parent and becomes the last child of c
AppendChild(ch, c, id) ==
    [k \in Containers |-> IF k = c THEN Append(Without(ch[k], id), id)
                          ELSE Without(ch[k], id)]

\* the attribute record of a set of items, dropped
Forget(it, id) == [k \in DOMAIN it \ {id} |-> it[k]]

\* one item's attributes replaced or added
Put(it, id, rec) == [k \in DOMAIN it \cup {id} |-> IF k = id THEN rec ELSE it[k]]


(***************************************************************************)
(* Initial state: the page after init() of every component.               *)
(***************************************************************************)
\* what reading a property that a node does not have gives, as a string
Undefined == "undefined"

\* a child node of an item: an element with its class, value and content,
\* or a text node with its text
ElementKid(cls, value, html, button) ==
    [node |-> "element", cls |-> cls, value |-> value, html |-> html,
     disabled |-> FALSE, button |-> button]
TextKid(text) ==
    [node |-> "text", cls |-> "", value |-> "", html |-> text,
     disabled |-> FALSE, button |-> FALSE]

\* childNodes[i].className, .value and .innerHTML, written as strings
ClassName(k) == IF k.node = "text" THEN Undefined ELSE k.cls
Value(k) == IF k.node = "text" THEN Undefined ELSE k.value
InnerHTML(k) == IF k.node = "text" THEN Undefined ELSE k.html

\* an item without child nodes as init() leaves it: draggable, no grading
\* marker, of no CTAT class (defaults is the number of child nodes that
\* CTATTutor.initializeHTMLComponent builds for the item's class)
NewItem(dis) == [draggable |-> TRUE, classes |-> {}, disabled |-> dis,
                 defaults |-> 0, kids |-> << >>]

NoTransfer == [types |-> {}, group |-> "", source |-> "", original |-> << >>,
               text |-> << >>, ids |-> {}]

NoEval == [target |-> "", allow |-> FALSE]

CardinalityAttrs == {NoAttr} \cup {IntAttr(n) : n \in -1 .. MaxLimit}
OverflowAttrs == {IntAttr(n) : n \in 0 .. MaxOverflow}

\* the pages tried: the attributes of container D and whether its markup
\* holds whitespace (a text node) between the tags
Pages ==
    {[card |-> a, over |-> NoAttr, ws |-> FALSE] : a \in CardinalityAttrs}
    \cup {[card |-> NoAttr, over |-> b, ws |-> w] : b \in OverflowAttrs, w \in BOOLEAN}
    \cup {[card |-> IntAttr(MaxLimit), over |-> IntAttr(MaxOverflow), ws |-> FALSE]}

Init ==
    /\ \E p \in Pages :
          /\ children = [S |-> <<IdX>>, R |-> << >>,
                         D |-> IF p.ws THEN <<TextNode>> ELSE << >>,
                         F |-> << >>, T |-> << >>, E |-> << >>]
          /\ maxCardinality = [c \in Containers |-> IF c = "D" THEN p.card ELSE NoAttr]
          /\ maxOverflow = [c \in Containers |-> IF c = "D" THEN p.over ELSE NoAttr]
    /\ item = [k \in {IdX} |-> NewItem(TRUE)]
    /\ enabled = [c \in Containers |-> TRUE]
    /\ disableOnCorrect \in BOOLEAN
    /\ initialized = Containers
    /\ onload = {"S"}
    /\ dragging = [h \in {} |-> [id |-> << >>, group |-> "", source |-> ""]]
    /\ gensym = 0
    /\ phase = "idle"
    /\ gestures = 0
    /\ dt = NoTransfer
    /\ lastEval = NoEval
    /\ validDrop = {}
    /\ actions = << >>
    /\ pending = << >>
    /\ errors = {}
    /\ calls = 0

(***************************************************************************)
(* dragstart on an item (handle_drag_start).  The browser starts a drag    *)
(* only on an element whose draggable attribute is true, one at a time.    *)
(***************************************************************************)
\* CandidateId without the clone id: the item's own id in every container
CandidateIdOwn(i, parent, n) == i

\* the id the gesture negotiates under: the item's own, or a clone's
CandidateId(i, parent, n) ==
    IF purposeAttr[parent] = "source" THEN i \o Separator \o Digits(n) ELSE i

\* Register that stores no group
RegisterGroupless(tbl, hid, id, parent) ==
    [h \in DOMAIN tbl \cup {hid} |->
        IF h = hid THEN [id |-> id, group |-> "", source |-> parent] ELSE tbl[h]]

\* CTATDragSource.dragging[hid] = {id, group, source}
Register(tbl, hid, id, parent) ==
    [h \in DOMAIN tbl \cup {hid} |->
        IF h = hid THEN [id |-> id, group |-> groupname[parent], source |-> parent]
        ELSE tbl[h]]

handle_drag_start(i) ==
    /\ phase = "idle"
    /\ gestures < MaxGestures
    /\ i \in Live
    /\ item[i].draggable
    /\ LET parent == Parent(i)
           n == IF purposeAttr[parent] = "source" THEN gensym + 1 ELSE gensym
           cand == CandidateId(i, parent, n)
           hid == hash(cand)
       IN  /\ gensym' = n
           /\ dt' = [types |-> {"ctat/group", "ctat/source", "original", "text"},
                     group |-> groupname[parent], source |-> parent,
                     original |-> i, text |-> cand, ids |-> {hid}]
           /\ dragging' = Register(dragging, hid, cand, parent)
    /\ phase' = "dragging"
    /\ gestures' = gestures + 1
    /\ lastEval' = NoEval
    /\ UNCHANGED <<children, item, enabled, config, validDrop, actions, pending, errors, calls>>

(***************************************************************************)
(* dragend on the dragged item (handle_drag_end).  The browser fires it    *)
(* after every dragstart, after the drop if there was one; a drag released *)
(* without a drop has left its last target (dragleave) before.             *)
(***************************************************************************)
\* Unregister that deletes nothing
UnregisterNothing(tbl, ids) == tbl

\* Unregister that empties the table
UnregisterAll(tbl, ids) == [h \in {} |-> tbl[h]]

\* delete CTATDragSource.dragging[hid] for every ctat/id/<hid> type
Unregister(tbl, ids) == [h \in DOMAIN tbl \ ids |-> tbl[h]]

handle_drag_end ==
    /\ "ctat/group" \in dt.types
    /\ \/ phase = "dropped"
       \/ phase = "dragging" /\ lastEval = NoEval
    /\ dragging' = Unregister(dragging, dt.ids)
    /\ phase' = "idle"
    /\ dt' = NoTransfer
    /\ lastEval' = NoEval
    /\ UNCHANGED <<children, item, enabled, config, gensym, gestures, validDrop,
                   actions, pending, errors, calls>>

(***************************************************************************)
(* dragover on a container: the evaluation of a drop.  e.target is the     *)
(* container itself ("self") or one of its child items ("child"); direct   *)
(* says whether this browser lets getData read the transport during hover. *)
(***************************************************************************)
\* EnabledGate that lets every container pass
EnabledAlways(c) == TRUE

\* $(this).data('CTATComponent').getEnabled(), comp.getEnabled()
EnabledGate(c) == enabled[c]

\* UnderLimit with the comparison off by one (<= for <)
UnderLimitInclusive(c) ==
    \/ isNaN(maxCardinality[c])
    \/ parseInt(maxCardinality[c]) < 0
    \/ Len(Elements(c)) <= parseInt(maxCardinality[c])

\* isNaN(limit) || limit<0 || $(this).children().length<limit
UnderLimit(c) ==
    \/ isNaN(maxCardinality[c])
    \/ parseInt(maxCardinality[c]) < 0
    \/ Len(Elements(c)) < parseInt(maxCardinality[c])

\* types.has('ctat/group')
FromDragSource == "ctat/group" \in dt.types

\* e.dataTransfer.getData('text') is readable and not empty
CanGetData(direct) == direct /\ dt.text # << >>

\* DirectMatch without the comparison of the source with this.id
DirectMatchAnySource(c) == dt.group = groupname[c]

\* getData('ctat/group') === name && getData('ctat/source') !== this.id
DirectMatch(c) == dt.group = groupname[c] /\ dt.source # c

\* TableMatch without the comparison of the group with the name
TableMatchAnyGroup(c) ==
    \E hid \in dt.ids : hid \in DOMAIN dragging /\ dragging[hid].source # c

\* some ctat/id/<hid> type has an entry of the same group and another source
TableMatch(c) ==
    \E hid \in dt.ids :
        /\ hid \in DOMAIN dragging
        /\ dragging[hid].group = groupname[c]
        /\ dragging[hid].source # c

\* $(e.target).attr('data-ctat-purpose'): child items carry no such attribute
TargetPurpose(c, over) == IF over = "self" THEN purposeAttr[c] ELSE ""

\* allow_drop that asks for the group marker only to tell its own drags
\* apart, and lets every other drag through
allow_dropForeign(c, over, direct) ==
    /\ EnabledGate(c)
    /\ UnderLimit(c)
    /\ FromDragSource => IF CanGetData(direct) THEN DirectMatch(c) ELSE TableMatch(c)
    /\ TargetPurpose(c, over) # "source"

allow_drop(c, over, direct) ==
    /\ EnabledGate(c)
    /\ UnderLimit(c)
    /\ FromDragSource
    /\ IF CanGetData(direct) THEN DirectMatch(c) ELSE TableMatch(c)
    /\ TargetPurpose(c, over) # "source"

\* dragover that marks every container when it allows
dragoverMarksAll(c, over, direct) ==
    /\ phase = "dragging"
    /\ lastEval.target \in {"", c}
    /\ over = "child" => Elements(c) # << >>
    /\ lastEval' = [target |-> c, allow |-> allow_drop(c, over, direct)]
    /\ validDrop' = IF allow_drop(c, over, direct) THEN Containers ELSE validDrop
    /\ UNCHANGED <<children, item, enabled, config, dragging, gensym, phase,
                   gestures, dt, actions, pending, errors, calls>>

dragover(c, over, direct) ==
    /\ phase = "dragging"
    /\ lastEval.target \in {"", c}
    /\ over = "child" => Elements(c) # << >>
    /\ lastEval' = [target |-> c, allow |-> allow_drop(c, over, direct)]
    /\ validDrop' = IF allow_drop(c, over, direct) THEN validDrop \cup {c}
                    ELSE validDrop
    /\ UNCHANGED <<children, item, enabled, config, dragging, gensym, phase,
                   gestures, dt, actions, pending, errors, calls>>

(***************************************************************************)
(* dragleave on a container: the pointer left it.                          *)
(***************************************************************************)
dragleave(c) ==
    /\ phase = "dragging"
    /\ lastEval.target = c
    /\ validDrop' = validDrop \ {c}
    /\ lastEval' = NoEval
    /\ UNCHANGED <<children, item, enabled, config, dragging, gensym, phase,
                   gestures, dt, actions, pending, errors, calls>>

(***************************************************************************)
(* drop on a container.  The browser delivers it only where the last       *)
(* dragover was accepted (preventDefault).                                 *)
(***************************************************************************)
\* the child an initialized component starts with
DefaultKid == ElementKid("", "", "", FALSE)

\* the child nodes CTATTutor.initializeHTMLComponent builds in the clone:
\* none when the class names no registered component
DefaultKids(orig) == [i \in 1 .. orig.defaults |-> DefaultKid]

\* Reconcile that keeps the child nodes the initialization left
ReconcileNone(init, orig) == init

\* newLength === oldLength: class, value and innerHTML of each origin child
\* are written on the clone's child; otherwise the clone's children are
\* dropped and the origin's children are cloned into it
Reconcile(init, orig) ==
    IF Len(init) = Len(orig.kids)
    THEN [i \in 1 .. Len(init) |->
             [init[i] EXCEPT !.cls = ClassName(orig.kids[i]),
                             !.value = Value(orig.kids[i]),
                             !.html = InnerHTML(orig.kids[i])]]
    ELSE orig.kids

\* original.cloneNode(false) with draggable set: the attributes are copied,
\* the disabled property (set by setDisabled, not an attribute) is not
CloneOf(orig, init) ==
    [draggable |-> TRUE, classes |-> orig.classes, disabled |-> FALSE,
     defaults |-> orig.defaults, kids |-> Reconcile(init, orig)]

\* StripOriginal that leaves the origin's classes alone
StripNothing(it, orig) == it

\* original.classList.remove of the three markers
StripOriginal(it, orig) == [it EXCEPT ![orig].classes = {}]

\* removeDisabled that stops at the item
removeDisabledItem(x) == [x EXCEPT !.disabled = FALSE]

\* removeDisabled(x): the item and the elements below it
removeDisabled(x) ==
    [x EXCEPT !.disabled = FALSE,
              !.kids = [i \in DOMAIN x.kids |->
                           IF x.kids[i].node = "element"
                           THEN [x.kids[i] EXCEPT !.disabled = FALSE]
                           ELSE x.kids[i]]]

\* removeClass of the three markers and removeDisabled on the dropped item
Release(it, id) ==
    [it EXCEPT ![id] = removeDisabled([it[id] EXCEPT !.classes = {}])]

\* the overflow attribute is a number the node count exceeds
Overflows(c, ch) ==
    /\ ~isNaN(maxOverflow[c])
    /\ Len(ch[c]) > parseInt(maxOverflow[c])

\* animatedRemove(this.firstChild.id): an animation starts on the element
\* with that id; a text node has no id and nothing is animated
Evicting(c, ch) ==
    IF Overflows(c, ch) /\ IsElement(Head(ch[c])) THEN <<Head(ch[c])>> ELSE << >>

\* Voids without the source branch
VoidsTrashcanOnly(c) == purposeAttr[c] = "trashcan"

\* Voids without the trashcan branch
VoidsSourceOnly(c) == purposeAttr[c] = "source"

\* purpose "trashcan" or "source": this.removeChild(item)
Voids(c) == purposeAttr[c] \in {"trashcan", "source"}

\* Accepts without the case of the absent purpose attribute
AcceptsMarked(c) == purposeAttr[c] = "destination"

\* purpose "destination", or no purpose
Accepts(c) == purposeAttr[c] \in {"destination", ""}

\* the purpose branches, on the document ch, it that holds the dropped item
Settle(c, id, ch, it) ==
    IF Voids(c)
    THEN /\ children' = Detach(ch, id)
         /\ item' = Forget(it, id)
         /\ UNCHANGED <<actions, pending>>
    ELSE IF Accepts(c)
         THEN /\ children' = ch
              /\ item' = Release(it, id)
              /\ actions' = Append(actions, [selection |-> c, action |-> "Add",
                                             input |-> id, graded |-> FALSE])
              /\ pending' = pending \o Evicting(c, ch)
         ELSE /\ children' = ch
              /\ item' = it
              /\ UNCHANGED <<actions, pending>>

drop(c) ==
    /\ phase = "dragging"
    /\ lastEval.target = c
    /\ lastEval.allow
    /\ phase' = "dropped"
    /\ validDrop' = validDrop \ {c}
    /\ IF ~EnabledGate(c)
       THEN UNCHANGED <<children, item, actions, pending, errors, calls>>
       ELSE IF InDocument(dt.text)
            THEN /\ Settle(c, dt.text, AppendChild(children, c, dt.text), item)
                 /\ UNCHANGED <<errors, calls>>
            ELSE IF ~InDocument(dt.original)
                 THEN /\ errors' = errors \cup {"drop"}
                      /\ UNCHANGED <<children, item, actions, pending, calls>>
                 ELSE /\ Settle(c, dt.text,
                             AppendChild(children, c, dt.text),
                             StripOriginal(Put(item, dt.text,
                                               CloneOf(item[dt.original],
                                                       DefaultKids(item[dt.original]))),
                                           dt.original))
                      /\ UNCHANGED <<errors, calls>>
    /\ UNCHANGED <<enabled, config, dragging, gensym, gestures, dt, lastEval>>

(***************************************************************************)
(* The end of a removal animation (the callback of animatedRemove).        *)
(***************************************************************************)
animatedRemoveDone ==
    /\ pending # << >>
    /\ pending' = Tail(pending)
    /\ IF InDocument(Head(pending))
       THEN /\ children' = Detach(children, Head(pending))
            /\ item' = Forget(item, Head(pending))
            /\ UNCHANGED <<errors, calls>>
       ELSE /\ errors' = errors \cup {"animatedRemove"}
            /\ UNCHANGED <<children, item, calls>>
    /\ UNCHANGED <<enabled, config, dragging, gensym, phase, gestures, dt,
                   lastEval, validDrop, actions>>

(***************************************************************************)
(* setEnabled, and the grading callbacks of the tutor.                     *)
(***************************************************************************)
\* Propagate without the lock on correct items
PropagateNoLock(it, c, bool) ==
    [k \in DOMAIN it |->
        IF k \in Range(children[c]) THEN [it[k] EXCEPT !.draggable = bool]
        ELSE it[k]]

\* Propagate that leaves the children as they are
PropagateNone(it, c, bool) == it

\* $(dnd).children().attr('draggable',bool), then the lock on correct items
Propagate(it, c, bool) ==
    [k \in DOMAIN it |->
        IF k \in Range(children[c])
        THEN [it[k] EXCEPT !.draggable =
                 bool /\ ~(disableOnCorrect /\ "CTAT--correct" \in it[k].classes)]
        ELSE it[k]]

setEnabled(c, bool) ==
    /\ calls < MaxCalls
    /\ calls' = calls + 1
    /\ enabled' = [enabled EXCEPT ![c] = bool]
    /\ item' = Propagate(item, c, bool)
    /\ UNCHANGED <<children, config, dragging, gensym, phase, gestures, dt,
                   lastEval, validDrop, actions, pending, errors>>

\* Mark that never touches draggable
MarkNoLock(it, id, cls, lock) ==
    IF id \in DOMAIN it THEN [it EXCEPT ![id].classes = @ \cup {cls}] ELSE it

\* $('#'+id).addClass(cls), and draggable false when lock holds
Mark(it, id, cls, lock) ==
    IF id \in DOMAIN it
    THEN [it EXCEPT ![id].classes = @ \cup {cls},
                    ![id].draggable = IF lock THEN FALSE ELSE @]
    ELSE it

\* the tutor's answer to the n-th recorded action arrives once
Awaited(c, n) ==
    /\ n \in DOMAIN actions
    /\ actions[n].selection = c
    /\ ~actions[n].graded

\* showCorrect without this.setEnabled(true)
showCorrectNoEnable(c, n) ==
    /\ Awaited(c, n)
    /\ actions' = [actions EXCEPT ![n].graded = TRUE]
    /\ IF actions[n].action = "Add"
       THEN item' = Mark(item, actions[n].input, "CTAT--correct", disableOnCorrect)
       ELSE UNCHANGED item
    /\ UNCHANGED <<children, enabled, config, dragging, gensym, phase, gestures,
                   dt, lastEval, validDrop, pending, errors, calls>>

showCorrect(c, n) ==
    /\ Awaited(c, n)
    /\ actions' = [actions EXCEPT ![n].graded = TRUE]
    /\ IF actions[n].action = "Add"
       THEN /\ enabled' = [enabled EXCEPT ![c] = TRUE]
            /\ item' = Mark(Propagate(item, c, TRUE), actions[n].input,
                            "CTAT--correct", disableOnCorrect)
       ELSE UNCHANGED <<enabled, item>>
    /\ UNCHANGED <<children, config, dragging, gensym, phase, gestures, dt,
                   lastEval, validDrop, pending, errors, calls>>

showInCorrect(c, n) ==
    /\ Awaited(c, n)
    /\ actions' = [actions EXCEPT ![n].graded = TRUE]
    /\ item' = IF actions[n].action = "Add"
               THEN Mark(item, actions[n].input, "CTAT--incorrect", FALSE)
               ELSE item
    /\ UNCHANGED <<children, enabled, config, dragging, gensym, phase, gestures,
                   dt, lastEval, validDrop, pending, errors, calls>>

(***************************************************************************)
(* The list of child ids: getConfigurationActions and updateSAI.           *)
(***************************************************************************)
\* the order of Array.prototype.sort on strings: by code unit, a proper
\* prefix first
RECURSIVE Less(_, _)
Less(a, b) ==
    IF a = << >> THEN b # << >>
    ELSE IF b = << >> THEN FALSE
    ELSE IF Head(a) # Head(b) THEN Head(a) < Head(b)
    ELSE Less(Tail(a), Tail(b))

\* sort that keeps the order of the document
sortNone(s) == s

\* items.sort(), by insertion of each element before the first larger one
RECURSIVE sort(_)
sort(s) ==
    IF s = << >> THEN << >>
    ELSE LET rest == sort(Tail(s))
             low == SelectSeq(rest, LAMBDA e : ~Less(Head(s), e))
             high == SelectSeq(rest, LAMBDA e : Less(Head(s), e))
         IN  low \o <<Head(s)>> \o high

Semicolon == <<59>>

\* join(';')
RECURSIVE join(_)
join(s) ==
    IF s = << >> THEN << >>
    ELSE IF Len(s) = 1 THEN Head(s)
    ELSE Head(s) \o Semicolon \o join(Tail(s))

\* the ids of $(this.component).children(), sorted and joined
ChildIds(c) == join(sort(Elements(c)))

\* the array getConfigurationActions returns; it has no effect
getConfigurationActions(c) ==
    IF Len(Elements(c)) > 0
    THEN <<[selection |-> c, action |-> "SetChildren", input |-> ChildIds(c)]>>
    ELSE << >>

\* updateSAI, called by the host when the learner asks for the container to
\* be graded (no drag is under way then); the host processes the action
updateSAI(c) ==
    /\ phase = "idle"
    /\ calls < MaxCalls
    /\ calls' = calls + 1
    /\ actions' = Append(actions, [selection |-> c, action |-> "SetChildren",
                                   input |-> ChildIds(c), graded |-> FALSE])
    /\ UNCHANGED <<children, item, enabled, config, dragging, gensym, phase,
                   gestures, dt, lastEval, validDrop, pending, errors>>

(***************************************************************************)
(* The interface action Add, on an item of the document.                   *)
(***************************************************************************)
Add(c, aId) ==
    /\ calls < MaxCalls
    /\ calls' = calls + 1
    /\ aId \in Live
    /\ children' = AppendChild(children, c, aId)
    /\ UNCHANGED <<item, enabled, config, dragging, gensym, phase, gestures, dt,
                   lastEval, validDrop, actions, pending, errors>>

(***************************************************************************)
(* The specification.                                                      *)
(***************************************************************************)
\* the containers the host enables and disables, and those it adds items to
EnableTargets == {"D"}
AddTargets == {"S", "D"}
GradedOnDemand == {"D"}

Next ==
    \/ \E i \in Live : handle_drag_start(i)
    \/ \E c \in Containers, over \in {"self", "child"}, direct \in BOOLEAN :
          dragover(c, over, direct)
    \/ \E c \in Containers : dragleave(c)
    \/ \E c \in Containers : drop(c)
    \/ handle_drag_end
    \/ animatedRemoveDone
    \/ \E c \in EnableTargets, bool \in BOOLEAN : setEnabled(c, bool)
    \/ \E c \in Containers, n \in DOMAIN actions : showCorrect(c, n)
    \/ \E c \in Containers, n \in DOMAIN actions : showInCorrect(c, n)
    \/ \E c \in AddTargets, aId \in Live : Add(c, aId)
    \/ \E c \in GradedOnDemand : updateSAI(c)

Spec == Init /\ [][Next]_vars

(***************************************************************************)
(* A second page: two Source pools, S and R, with one item each, the item  *)
(* of S with child nodes; drags that start outside the containers (a file, *)
(* a selection of text) pass over them as well.                            *)
(***************************************************************************)
IdY == <<121>>

\* child nodes of an item of a locked pool: a text node, an input that
\* setDisabled has disabled, a button that it has left alone
Label == TextKid("a")
Input == [ElementKid("field", "7", "", FALSE) EXCEPT !.disabled = TRUE]
Button == ElementKid("ok", "", "go", TRUE)

\* the items tried in S: without child nodes; of no CTAT class, with child
\* nodes; CTAT components with the children their initialization built, and
\* the same with a text node of the markup before them
Shapes ==
    {NewItem(TRUE), [NewItem(TRUE) EXCEPT !.kids = <<Label, Input, Button>>]}
    \cup {[NewItem(TRUE) EXCEPT !.defaults = d, !.kids = text \o [i \in 1 .. d |-> Input]] :
             d \in 1 .. MaxDefaultKids, text \in {<< >>, <<Label>>}}

\* the transport of a drag that no handle_drag_start has filled: files, or
\* a text that happens to be the id of an item
ForeignTransfers ==
    {[NoTransfer EXCEPT !.types = {"Files"}],
     [NoTransfer EXCEPT !.types = {"text"}, !.text = IdX]}

\* window.onload holds the callback of S, the pool initialized last: the
\* item of R is not disabled
InitItems ==
    /\ children = [S |-> <<IdX>>, R |-> <<IdY>>, D |-> << >>, F |-> << >>,
                   T |-> << >>, E |-> << >>]
    /\ maxCardinality = [c \in Containers |-> NoAttr]
    /\ maxOverflow = [c \in Containers |-> NoAttr]
    /\ \E s \in Shapes : item = [k \in {IdX, IdY} |-> IF k = IdX THEN s ELSE NewItem(FALSE)]
    /\ enabled = [c \in Containers |-> TRUE]
    /\ disableOnCorrect = FALSE
    /\ initialized = Containers
    /\ onload = {"S"}
    /\ dragging = [h \in {} |-> [id |-> << >>, group |-> "", source |-> ""]]
    /\ gensym = 0
    /\ phase = "idle"
    /\ gestures = 0
    /\ dt = NoTransfer
    /\ lastEval = NoEval
    /\ validDrop = {}
    /\ actions = << >>
    /\ pending = << >>
    /\ errors = {}
    /\ calls = 0

\* a drag starts outside the containers; no dragstart listener runs
foreign_drag_start(t) ==
    /\ phase = "idle"
    /\ gestures < MaxGestures
    /\ phase' = "dragging"
    /\ gestures' = gestures + 1
    /\ dt' = t
    /\ lastEval' = NoEval
    /\ UNCHANGED <<children, item, enabled, config, dragging, gensym, validDrop,
                   actions, pending, errors, calls>>

\* and ends; no dragend listener runs
foreign_drag_end ==
    /\ ~FromDragSource
    /\ \/ phase = "dropped"
       \/ phase = "dragging" /\ lastEval = NoEval
    /\ phase' = "idle"
    /\ dt' = NoTransfer
    /\ lastEval' = NoEval
    /\ UNCHANGED <<children, item, enabled, config, dragging, gensym, gestures,
                   validDrop, actions, pending, errors, calls>>

NextItems ==
    \/ \E i \in Live : handle_drag_start(i)
    \/ \E t \in ForeignTransfers : foreign_drag_start(t)
    \/ \E c \in Containers, over \in {"self", "child"}, direct \in BOOLEAN :
          dragover(c, over, direct)
    \/ \E c \in Containers : dragleave(c)
    \/ \E c \in Containers : drop(c)
    \/ handle_drag_end
    \/ foreign_drag_end
    \/ \E c \in EnableTargets, bool \in BOOLEAN : setEnabled(c, bool)
    \/ \E c \in Containers, n \in DOMAIN actions : showCorrect(c, n)
    \/ \E c \in Containers, n \in DOMAIN actions : showInCorrect(c, n)
    \/ \E c \in AddTargets, aId \in Live : Add(c, aId)

SpecItems == InitItems /\ [][NextItems]_vars

(***************************************************************************)
(* The loading of the second page: init() of every container, in any       *)
(* order, then the load event of the window.                               *)
(***************************************************************************)
\* an item as the markup declares it, before any init(): not draggable,
\* nothing disabled
Raw(r) ==
    [r EXCEPT !.draggable = FALSE, !.disabled = FALSE,
              !.kids = [i \in DOMAIN r.kids |-> [r.kids[i] EXCEPT !.disabled = FALSE]]]

InitLoad ==
    /\ children = [S |-> <<IdX>>, R |-> <<IdY>>, D |-> << >>, F |-> << >>,
                   T |-> << >>, E |-> << >>]
    /\ maxCardinality = [c \in Containers |-> NoAttr]
    /\ maxOverflow = [c \in Containers |-> NoAttr]
    /\ \E s \in Shapes :
          item = [k \in {IdX, IdY} |-> IF k = IdX THEN Raw(s) ELSE Raw(NewItem(FALSE))]
    /\ enabled = [c \in Containers |-> TRUE]
    /\ disableOnCorrect = FALSE
    /\ initialized = {}
    /\ onload = {}
    /\ dragging = [h \in {} |-> [id |-> << >>, group |-> "", source |-> ""]]
    /\ gensym = 0
    /\ phase = "loading"
    /\ gestures = 0
    /\ dt = NoTransfer
    /\ lastEval = NoEval
    /\ validDrop = {}
    /\ actions = << >>
    /\ pending = << >>
    /\ errors = {}
    /\ calls = 0

\* setDisabled(x) on an item: disabled on the node unless it is a button,
\* and on the elements below it
setDisabled(x) ==
    [x EXCEPT !.disabled = TRUE,
              !.kids = [i \in DOMAIN x.kids |->
                           IF x.kids[i].node = "element" /\ ~x.kids[i].button
                           THEN [x.kids[i] EXCEPT !.disabled = TRUE]
                           ELSE x.kids[i]]]

\* init() of container c: its children become drag items, and a Source
\* assigns its callback to window.onload
init(c) ==
    /\ phase = "loading"
    /\ c \notin initialized
    /\ initialized' = initialized \cup {c}
    /\ item' = [k \in DOMAIN item |->
                    IF k \in Range(children[c]) THEN [item[k] EXCEPT !.draggable = TRUE]
                    ELSE item[k]]
    /\ onload' = IF get_purpose(c) = "source" THEN {c} ELSE onload
    /\ UNCHANGED <<children, enabled, maxCardinality, maxOverflow, disableOnCorrect,
                   dragging, gensym, phase, gestures, dt, lastEval, validDrop,
                   actions, pending, errors, calls>>

\* the load event, after every init(): window.onload runs setDisabled(dnd)
\* for the container whose callback it holds
window_onload ==
    /\ phase = "loading"
    /\ initialized = Containers
    /\ phase' = "idle"
    /\ item' = [k \in DOMAIN item |->
                    IF \E c \in onload : k \in Range(children[c]) THEN setDisabled(item[k])
                    ELSE item[k]]
    /\ UNCHANGED <<children, enabled, config, dragging, gensym, gestures, dt,
                   lastEval, validDrop, actions, pending, errors, calls>>

NextLoad ==
    \/ \E c \in Containers : init(c)
    \/ window_onload

SpecLoad == InitLoad /\ [][NextLoad]_vars

(***************************************************************************)
(* The side table on its own: one item with an id out of Ids, in S or in   *)
(* D, and a table that may hold entries which earlier drags left; gestures *)
(* start and end.                                                          *)
(***************************************************************************)
\* the code units the ids are made of: "-", "x" and the largest
Units == {45, 120, 65535}

\* the strings of Units of length n
RECURSIVE Strings(_)
Strings(n) ==
    IF n = 0 THEN {<< >>}
    ELSE {<<u>> \o s : u \in Units, s \in Strings(n - 1)}

\* the ids tried: an id is not empty (init() gives an item without id one)
Ids == UNION {Strings(n) : n \in 1 .. MaxIdLen}

\* ids of drags of which an entry may be left
StaleIds == {<<97>>, <<98>>}

\* the table with an entry for each id of ids
TableOf(ids) ==
    [h \in {hash(i) : i \in ids} |->
        [id |-> CHOOSE i \in ids : hash(i) = h, group |-> groupname["D"],
         source |-> "D"]]

InitTable ==
    /\ \E id \in Ids, c \in {"S", "D"} : \E left \in SUBSET (StaleIds \cup {id}) :
          /\ children = [k \in Containers |-> IF k = c THEN <<id>> ELSE << >>]
          /\ item = [k \in {id} |-> NewItem(c = "S")]
          /\ dragging = TableOf(left)
    /\ maxCardinality = [c \in Containers |-> NoAttr]
    /\ maxOverflow = [c \in Containers |-> NoAttr]
    /\ enabled = [c \in Containers |-> TRUE]
    /\ disableOnCorrect = FALSE
    /\ initialized = Containers
    /\ onload = {"S"}
    /\ gensym = 0
    /\ phase = "idle"
    /\ gestures = 0
    /\ dt = NoTransfer
    /\ lastEval = NoEval
    /\ validDrop = {}
    /\ actions = << >>
    /\ pending = << >>
    /\ errors = {}
    /\ calls = 0

NextTable ==
    \/ \E i \in Live : handle_drag_start(i)
    \/ handle_drag_end

SpecTable == InitTable /\ [][NextTable]_vars

(***************************************************************************)
(* Gestures alone, each brought to its end: the browser fires dragend      *)
(* after every dragstart, and a pointer over a container leaves it or the  *)
(* item is dropped.                                                        *)
(***************************************************************************)
NextGestures ==
    \/ \E i \in Live : handle_drag_start(i)
    \/ \E c \in Containers, over \in {"self", "child"}, direct \in BOOLEAN :
          dragover(c, over, direct)
    \/ \E c \in Containers : dragleave(c)
    \/ \E c \in Containers : drop(c)
    \/ handle_drag_end
    \/ animatedRemoveDone

SpecGestures ==
    /\ Init
    /\ [][NextGestures]_vars
    /\ SF_vars(handle_drag_end)
    /\ WF_vars(\E c \in Containers : dragleave(c) \/ drop(c))

(***************************************************************************)
(* Properties.                                                             *)
(***************************************************************************)
\* where the pointer can be inside a container
Overs == {"self", "child"}

\* C1 (group isolation): a dragover on a container whose group differs from
\* the group of the gesture's origin container denies the drop, on the
\* getData path and on the side-table path alike.
C1_GroupIsolation ==
    [][\A c \in Containers, over \in Overs, direct \in BOOLEAN :
          (dragover(c, over, direct) /\ groupname[dt.source] # groupname[c])
              => ~lastEval'.allow]_vars

\* C1: a gesture from S hovers the enabled, unbounded container E of the
\* other group and is denied.
C1_Witness ==
    /\ phase = "dragging"
    /\ dt.source = "S"
    /\ lastEval.target = "E"
    /\ enabled["E"]
    /\ ~lastEval.allow

\* C2 (no self-return): a dragover on the gesture's own origin container
\* denies the drop, on both paths.
C2_NoSelfReturn ==
    [][\A c \in Containers, over \in Overs, direct \in BOOLEAN :
          (dragover(c, over, direct) /\ dt.source = c) => ~lastEval'.allow]_vars

\* C2: an item of the enabled destination D, which is under its limit, hovers
\* D itself and is denied.
C2_Witness ==
    /\ phase = "dragging"
    /\ dt.source = "D"
    /\ lastEval.target = "D"
    /\ enabled["D"]
    /\ isNaN(maxCardinality["D"])
    /\ ~lastEval.allow

\* C3 (cardinality gate): with a limit L >= 0 and at least L element
\* children the dragover denies the drop whatever the gesture; below the
\* limit, or with the limit absent or negative, it allows the drop when the
\* target is enabled, is not a Source, has the origin's group and is not the
\* origin container.
C3_CardinalityGate ==
    [][\A c \in Containers, over \in Overs, direct \in BOOLEAN :
          dragover(c, over, direct) =>
              LET a == maxCardinality[c]
                  full == a # {} /\ \E L \in a : L >= 0 /\ Len(Elements(c)) >= L
              IN  /\ full => ~lastEval'.allow
                  /\ ( /\ ~full
                       /\ enabled[c]
                       /\ purposeAttr[c] # "source"
                       /\ groupname[c] = groupname[dt.source]
                       /\ dt.source # c ) => lastEval'.allow]_vars

\* C3: D has the limit 1 and one child; a gesture from S of the same group
\* hovers the enabled D and is denied.
C3_Witness ==
    /\ phase = "dragging"
    /\ dt.source = "S"
    /\ lastEval.target = "D"
    /\ enabled["D"]
    /\ maxCardinality["D"] = IntAttr(1)
    /\ Len(Elements("D")) = 1
    /\ ~lastEval.allow

\* C4 (no drop into a Source): the last dragover on a container whose
\* purpose is "source" never allows the drop, wherever the pointer is inside
\* the container.
C4_NoDropIntoSource ==
    (lastEval.target # "" /\ purposeAttr[lastEval.target] = "source")
        => ~lastEval.allow

\* a step of one of the gesture's own handlers after dragstart
GestureHandler ==
    \/ \E c \in Containers, over \in Overs, direct \in BOOLEAN : dragover(c, over, direct)
    \/ \E c \in Containers : dragleave(c)
    \/ \E c \in Containers : drop(c)
    \/ handle_drag_end

\* the step leaves item o in the document and in its container
OriginStays(o) ==
    /\ o \in DOMAIN item'
    /\ ParentIn(children', o) = Parent(o)

\* C5 as stated (clone identity): no handler of a gesture that started on an
\* item of a Source container removes, moves or changes the origin item in
\* any way.
C5_OriginUntouched ==
    [][ /\ \A i \in Live :
              (handle_drag_start(i) /\ purposeAttr[Parent(i)] = "source")
                  => (OriginStays(i) /\ item'[i] = item[i])
        /\ ( /\ phase # "idle"
             /\ purposeAttr[dt.source] = "source"
             /\ dt.original \in Live
             /\ GestureHandler )
               => (OriginStays(dt.original) /\ item'[dt.original] = item[dt.original])
      ]_vars

\* the step changes nothing of item o but, possibly, removes its markers
OnlyMarkersStripped(o) ==
    /\ item'[o].draggable = item[o].draggable
    /\ item'[o].disabled = item[o].disabled
    /\ item'[o].classes \in {item[o].classes, {}}

\* C5 as amended: no handler of a gesture that started on an item of a
\* Source container removes or moves the origin item or changes its
\* draggable or disabled state; the only change is that a committed clone
\* drop removes the origin's grading markers.
C5_CloneIdentity ==
    [][ /\ \A i \in Live :
              (handle_drag_start(i) /\ purposeAttr[Parent(i)] = "source")
                  => (OriginStays(i) /\ item'[i] = item[i] /\ item'[i].draggable)
        /\ ( /\ phase # "idle"
             /\ purposeAttr[dt.source] = "source"
             /\ dt.original \in Live
             /\ GestureHandler )
               => (OriginStays(dt.original) /\ OnlyMarkersStripped(dt.original))
      ]_vars

\* C5: a clone of an item of S has been dropped on D; the origin is still a
\* draggable child of S.
C5_Witness ==
    /\ phase = "dropped"
    /\ dt.source = "S"
    /\ lastEval.target = "D"
    /\ dt.text \in Range(children["D"])
    /\ dt.original \in Range(children["S"])
    /\ item[dt.original].draggable

\* C6 (overflow): a commit into a Destination with overflow limit k that
\* held at most k children, with no removal in progress, and now holds more
\* than k starts the removal of exactly one child, the oldest one, which
\* leaves k children.
C6_OverflowEvictsOldest ==
    [][\A c \in Containers :
          ( /\ drop(c)
            /\ enabled[c]
            /\ purposeAttr[c] \in {"destination", ""}
            /\ maxOverflow[c] # NoAttr
            /\ pending = << >>
            /\ Len(Elements(c)) <= parseInt(maxOverflow[c])
            /\ Len(ElementsOf(children', c)) > parseInt(maxOverflow[c]) )
          => /\ pending' = <<Head(ElementsOf(children', c))>>
             /\ Len(ElementsOf(children', c)) = parseInt(maxOverflow[c]) + 1]_vars

\* C7 (side-table cleanup): after dragend the side table has no entry under
\* the hash of the gesture's candidate id, whatever the gesture did.
C7_SideTableCleanup ==
    [][handle_drag_end => hash(dt.text) \notin DOMAIN dragging']_vars

\* C7: the second gesture has ended after its drop removed the item that the
\* first gesture had added to D; nothing is left in the side table.
C7_Witness ==
    /\ phase = "idle"
    /\ gestures = 2
    /\ DOMAIN dragging = {}
    /\ maxOverflow["D"] = NoAttr
    /\ errors = {}
    /\ \E n \in DOMAIN actions :
          actions[n].action = "Add" /\ actions[n].input \notin Live

\* C8 (repeated cloning): every drop of a gesture from a Source on an
\* enabled Destination adds, as the last child, a new item whose id differs
\* from the origin's and from every live id, and leaves the origin where it
\* is; with the limit n >= 0 a gesture from a Source of the same group is
\* allowed on the enabled Destination exactly while it holds fewer than n
\* children.
C8_RepeatedCloning ==
    [][\A c \in Containers :
          /\ ( /\ drop(c)
               /\ enabled[c]
               /\ purposeAttr[c] \in {"destination", ""}
               /\ purposeAttr[dt.source] = "source"
               /\ dt.original \in Live )
             => /\ dt.text \notin Live
                /\ dt.text # dt.original
                /\ DOMAIN item' = Live \cup {dt.text}
                /\ ElementsOf(children', c) = Append(Elements(c), dt.text)
                /\ ParentIn(children', dt.original) = Parent(dt.original)
          /\ \A over \in Overs, direct \in BOOLEAN :
                ( /\ dragover(c, over, direct)
                  /\ purposeAttr[dt.source] = "source"
                  /\ groupname[dt.source] = groupname[c]
                  /\ purposeAttr[c] \in {"destination", ""}
                  /\ enabled[c]
                  /\ maxCardinality[c] # NoAttr
                  /\ parseInt(maxCardinality[c]) >= 0 )
                => (lastEval'.allow <=> Len(Elements(c)) < parseInt(maxCardinality[c]))
      ]_vars

\* C8: D has the limit 1 and holds the first clone "x--1"; x is still in S
\* and the second gesture from S is denied on D.
C8_Witness ==
    /\ phase = "dragging"
    /\ gestures = 2
    /\ dt.original = IdX
    /\ IdX \in Range(children["S"])
    /\ maxCardinality["D"] = IntAttr(1)
    /\ Elements("D") = <<IdX \o Separator \o <<49>> >>
    /\ enabled["D"]
    /\ lastEval.target = "D"
    /\ ~lastEval.allow

\* C9 (trashcan deletes): a committed drop of an item of a Destination on a
\* Trashcan leaves the item in no container and not in the document, the
\* Trashcan's children as they were, and records no action.
C9_TrashcanDeletes ==
    [][\A c \in Containers :
          ( /\ drop(c)
            /\ enabled[c]
            /\ purposeAttr[c] = "trashcan"
            /\ dt.text \in Live
            /\ purposeAttr[Parent(dt.text)] \in {"destination", ""} )
          => /\ dt.text \notin DOMAIN item'
             /\ \A k \in Containers : dt.text \notin Range(children'[k])
             /\ children'[c] = children[c]
             /\ actions' = actions]_vars

\* C9: an item dragged from D has been dropped on T and is gone.
C9_Witness ==
    /\ phase = "dropped"
    /\ dt.source = "D"
    /\ lastEval.target = "T"
    /\ dt.text \notin Live
    /\ children["T"] = << >>

\* C10 (disabling): setEnabled(false) leaves the container disabled and every
\* child non-draggable, and every dragover on a disabled container denies
\* the drop.
C10_Disabled ==
    [][\A c \in Containers :
          /\ setEnabled(c, FALSE)
             => /\ ~enabled'[c]
                /\ \A k \in Range(Elements(c)) : ~item'[k].draggable
          /\ \A over \in Overs, direct \in BOOLEAN :
                (dragover(c, over, direct) /\ ~enabled[c]) => ~lastEval'.allow
      ]_vars

\* C10: D was disabled while it held a child; the child is not draggable and
\* a gesture from S is denied on D.
C10_Witness ==
    /\ ~enabled["D"]
    /\ Elements("D") # << >>
    /\ \A k \in Range(Elements("D")) : ~item[k].draggable
    /\ phase = "dragging"
    /\ dt.source = "S"
    /\ isNaN(maxCardinality["D"])
    /\ lastEval.target = "D"
    /\ ~lastEval.allow

\* the step leaves the document and the recorded actions as they are
NoTrace ==
    /\ children' = children
    /\ item' = item
    /\ actions' = actions

Owners(id) == {c \in Containers : id \in Range(children[c])}
Occurrences(c, id) == Len(SelectSeq(children[c], LAMBDA n : n = id))

\* every live item is a child of one container, once, and every child
\* element is a live item
SingleOwner ==
    /\ \A id \in Live :
          /\ Cardinality(Owners(id)) = 1
          /\ \A c \in Owners(id) : Occurrences(c, id) = 1
    /\ \A c \in Containers : Range(Elements(c)) \subseteq Live

\* C12 (single ownership): in every reachable state each live item is a
\* child of exactly one container and occurs there once (ids are pairwise
\* distinct); a commit of an item of the document into an enabled
\* Destination leaves it in the target and in no other container in the same
\* step.
C12_SingleOwnership ==
    /\ []SingleOwner
    /\ [][\A c \in Containers :
            ( /\ drop(c)
              /\ enabled[c]
              /\ dt.text \in Live
              /\ purposeAttr[c] \in {"destination", ""} )
            => /\ dt.text \in Range(children'[c])
               /\ \A k \in Containers \ {c} : dt.text \notin Range(children'[k])
               /\ DOMAIN item' = Live]_vars

\* C12: a clone was moved from D to F by a drop; F holds it and D does not.
C12_Witness ==
    /\ phase = "dropped"
    /\ dt.source = "D"
    /\ lastEval.target = "F"
    /\ dt.text = dt.original
    /\ dt.text \in Range(children["F"])
    /\ dt.text \notin Range(children["D"])
    /\ calls = 0

\* the step records the one action (c, "Add", id) after those recorded
RecordsAdd(c, id) ==
    /\ Len(actions') = Len(actions) + 1
    /\ SubSeq(actions', 1, Len(actions)) = actions
    /\ actions'[Len(actions')].selection = c
    /\ actions'[Len(actions')].action = "Add"
    /\ actions'[Len(actions')].input = id

\* C13 (action recording): a drop that commits an item or a clone into an
\* enabled Destination (purpose "destination" or unset) records exactly one
\* action (target, "Add", id of the dropped item); a drop on a Trashcan or a
\* Source, a drop on a disabled container, and every other handler of a
\* gesture record no action.
C13_ActionRecording ==
    [][ /\ \A c \in Containers :
              /\ ( /\ drop(c)
                   /\ enabled[c]
                   /\ purposeAttr[c] \in {"destination", ""}
                   /\ (dt.text \in Live \/ dt.original \in Live) )
                 => RecordsAdd(c, dt.text)
              /\ (drop(c) /\ (~enabled[c] \/ purposeAttr[c] \in {"trashcan", "source"}))
                 => actions' = actions
              /\ dragleave(c) => actions' = actions
              /\ \A over \in Overs, direct \in BOOLEAN :
                    dragover(c, over, direct) => actions' = actions
        /\ \A i \in Live : handle_drag_start(i) => actions' = actions
        /\ handle_drag_end => actions' = actions
      ]_vars

\* C13: after the clone of x was dropped on D, a second drop moved it to F:
\* two actions are recorded, the second on F with the clone's id.
C13_Witness ==
    /\ phase = "dropped"
    /\ lastEval.target = "F"
    /\ Len(actions) = 2
    /\ actions[1].selection = "D"
    /\ actions[2].selection = "F"
    /\ actions[2].action = "Add"
    /\ actions[2].input = dt.text
    /\ actions[1].input = dt.text

\* C14 (enablement at drag-start): a dragstart on an item whose container is
\* disabled registers no side-table entry.
C14_DisabledOriginNoStart ==
    [][\A i \in Live :
          (handle_drag_start(i) /\ ~enabled[Parent(i)]) => dragging' = dragging]_vars

\* C15 (rejected drop): a drop delivered to a disabled container changes no
\* container's children, no item, no recorded action, raises no error and
\* starts no removal; it only clears the container's valid-drop marker.
C15_RejectedDropNoOp ==
    [][\A c \in Containers :
          (drop(c) /\ ~enabled[c])
          => /\ children' = children
             /\ item' = item
             /\ actions' = actions
             /\ errors' = errors
             /\ pending' = pending
             /\ enabled' = enabled
             /\ dragging' = dragging
             /\ validDrop' = validDrop \ {c}
             /\ c \in validDrop]_vars

\* C15: D was disabled after it had accepted the hover of a drag from S; the
\* drop on D left no clone, no action and no error, and no marker on D.
C15_Witness ==
    /\ phase = "dropped"
    /\ dt.source = "S"
    /\ lastEval = [target |-> "D", allow |-> TRUE]
    /\ ~enabled["D"]
    /\ dt.text \notin Live
    /\ actions = << >>
    /\ errors = {}
    /\ "D" \notin validDrop

\* C16 (missing origin): a drop on an enabled Destination whose candidate id
\* and whose origin id both name no item of the document raises no error and
\* leaves a new item with the candidate id as a child of the target.
C16_MissingOriginNotFatal ==
    [][\A c \in Containers :
          ( /\ drop(c)
            /\ enabled[c]
            /\ purposeAttr[c] \in {"destination", ""}
            /\ dt.text \notin Live
            /\ dt.original \notin Live )
          => /\ errors' = errors
             /\ dt.text \in DOMAIN item'
             /\ dt.text \in Range(children'[c])]_vars

\* the lock-on-correct policy holds item k
Locked(k) == disableOnCorrect /\ "CTAT--correct" \in item[k].classes

\* C17 (enable/disable propagation): after setEnabled(c, b) the enabled flag
\* of c is b, every child of c that is not both marked correct and under an
\* active lock-on-correct policy has draggable = b, every child marked
\* correct under an active lock has draggable = false (also for b = true),
\* and no other attribute and no item of another container changes.
C17_EnablePropagation ==
    [][\A c \in Containers, b \in BOOLEAN :
          setEnabled(c, b)
          => /\ enabled' = [enabled EXCEPT ![c] = b]
             /\ DOMAIN item' = Live
             /\ \A k \in Live :
                   IF k \in Range(children[c])
                   THEN item'[k] = [item[k] EXCEPT !.draggable =
                                        IF Locked(k) THEN FALSE ELSE b]
                   ELSE item'[k] = item[k]]_vars

\* C17: under the lock-on-correct policy D was disabled while it held a
\* child marked correct; the flag is off and the child is not draggable.
C17_Witness ==
    /\ disableOnCorrect
    /\ ~enabled["D"]
    /\ phase = "idle"
    /\ \E k \in Range(Elements("D")) :
          "CTAT--correct" \in item[k].classes /\ ~item[k].draggable

\* a step of a handler other than the end of a removal animation and the
\* dragleave, dragend and Add calls
LaterHandler ==
    \/ \E i \in Live : handle_drag_start(i)
    \/ \E c \in Containers, over \in Overs, direct \in BOOLEAN : dragover(c, over, direct)
    \/ \E c \in Containers : drop(c)
    \/ \E c \in Containers, b \in BOOLEAN : setEnabled(c, b)
    \/ \E c \in Containers, n \in DOMAIN actions : showCorrect(c, n)
    \/ \E c \in Containers, n \in DOMAIN actions : showInCorrect(c, n)

\* C18 (atomic commit): no dragstart, dragover, drop, setEnabled or grading
\* callback runs while the overflow eviction of an earlier commit is still
\* to be done, so none of them sees the Destination with the evicted child.
C18_AtomicCommit ==
    [][LaterHandler => pending = << >>]_vars

\* C19 (grading feedback): showCorrect for an "Add" action leaves the item
\* named by the input marked correct and, under the lock-on-correct policy,
\* not draggable; showInCorrect for "Add" adds the incorrect marker to that
\* item and changes nothing else; for an action of another name
\* ("SetChildren") neither callback changes an item, a container's children
\* or its enabled flag.
C19_GradingFeedback ==
    [][\A c \in Containers, n \in DOMAIN actions :
          LET id == actions[n].input
              add == actions[n].action = "Add"
          IN  /\ (showCorrect(c, n) /\ add /\ id \in Live)
                 => /\ "CTAT--correct" \in item'[id].classes
                    /\ disableOnCorrect => ~item'[id].draggable
                    /\ children' = children
              /\ (showInCorrect(c, n) /\ add)
                 => /\ item' = IF id \in Live
                               THEN [item EXCEPT ![id].classes = @ \cup {"CTAT--incorrect"}]
                               ELSE item
                    /\ children' = children
                    /\ enabled' = enabled
              /\ ((showCorrect(c, n) \/ showInCorrect(c, n)) /\ ~add)
                 => /\ item' = item
                    /\ children' = children
                    /\ enabled' = enabled]_vars

\* C19: under the lock-on-correct policy an "Add" on D was graded correct,
\* its item is marked and not draggable, and a "SetChildren" action of D was
\* graded as well.
C19_Witness ==
    /\ disableOnCorrect
    /\ enabled["D"]
    /\ \E n \in DOMAIN actions :
          /\ actions[n].action = "Add"
          /\ actions[n].graded
          /\ actions[n].input \in Live
          /\ "CTAT--correct" \in item[actions[n].input].classes
          /\ ~item[actions[n].input].draggable
    /\ \E n \in DOMAIN actions :
          actions[n].action = "SetChildren" /\ actions[n].graded

\* C20 as stated (configuration export): for every container, in every
\* state, getConfigurationActions returns exactly one action, named
\* "SetChildren".
C20_ExportOneAction ==
    \A c \in Containers :
        /\ Len(getConfigurationActions(c)) = 1
        /\ getConfigurationActions(c)[1].action = "SetChildren"

\* the orderings of the child ids of c: each id once, no id before a
\* smaller one
SortedOrders(c) ==
    {q \in [1 .. Len(Elements(c)) -> Range(Elements(c))] :
        /\ \A i, j \in DOMAIN q : i < j => (q[i] # q[j] /\ ~Less(q[j], q[i]))}

\* a ";" between every two ids of q
RECURSIVE Joined(_, _)
Joined(q, i) ==
    IF i > Len(q) THEN << >>
    ELSE IF i = Len(q) THEN q[i]
    ELSE q[i] \o <<59>> \o Joined(q, i + 1)

\* C20 as amended: in every state getConfigurationActions returns no action
\* for a container without child items and, for a container with child
\* items, exactly one action, on that container, named "SetChildren", whose
\* input is the child ids in sorted order joined by ";".
C20_ConfigurationExport ==
    \A c \in Containers :
        IF Elements(c) = << >>
        THEN getConfigurationActions(c) = << >>
        ELSE /\ Len(getConfigurationActions(c)) = 1
             /\ getConfigurationActions(c)[1].selection = c
             /\ getConfigurationActions(c)[1].action = "SetChildren"
             /\ \E q \in SortedOrders(c) :
                   getConfigurationActions(c)[1].input = Joined(q, 1)

\* C20: D holds the clone "x--1" followed by x; the export of D names
\* "x;x--1".
C20_Witness ==
    /\ Elements("D") = <<IdX \o Separator \o <<49>>, IdX>>
    /\ getConfigurationActions("D")[1].input = <<120, 59, 120, 45, 45, 49>>
    /\ getConfigurationActions("T") = << >>

\* C21 (interface action Add): after Add(aId) on container c, for an id of
\* the document that is a child of another container, the entity is a child
\* of c and of no other container and is draggable.
C21_AddMakesDragItem ==
    [][\A c \in Containers, aId \in Live :
          (Add(c, aId) /\ Parent(aId) # c)
          => /\ aId \in Range(children'[c])
             /\ \A k \in Containers \ {c} : aId \notin Range(children'[k])
             /\ item'[aId].draggable]_vars

\* s starts with the sequence p
StartsWith(s, p) == Len(s) >= Len(p) /\ SubSeq(s, 1, Len(p)) = p

\* C22 (drag-start registration): after dragstart on item i of container C
\* the side table holds {id: candidate, group: C's group, source: C} under
\* hash(candidate) and the transport carries C's group, C, i and the
\* candidate as its text; the candidate is i when C is not a Source, and
\* otherwise i followed by the separator and a suffix, an id that no item of
\* the document has.
C22_DragStartRegistration ==
    [][\A i \in Live :
          handle_drag_start(i)
          => LET C == Parent(i)
                 cand == dt'.text
             IN  /\ hash(cand) \in DOMAIN dragging'
                 /\ dragging'[hash(cand)] =
                        [id |-> cand, group |-> groupname[C], source |-> C]
                 /\ dt'.group = groupname[C]
                 /\ dt'.source = C
                 /\ dt'.original = i
                 /\ "ctat/group" \in dt'.types
                 /\ hash(cand) \in dt'.ids
                 /\ purposeAttr[C] # "source" => cand = i
                 /\ purposeAttr[C] = "source"
                       => /\ StartsWith(cand, i \o <<45, 45>>)
                          /\ Len(cand) > Len(i) + 2
                          /\ cand \notin Live]_vars

\* C22: a drag has just started on an item of D, which is not a Source: the
\* candidate is the item's own id and is registered under its hash.
C22_Witness ==
    /\ phase = "dragging"
    /\ lastEval = NoEval
    /\ dt.source = "D"
    /\ dt.text = dt.original
    /\ dt.text \in Range(children["D"])
    /\ hash(dt.text) \in DOMAIN dragging
    /\ dragging[hash(dt.text)].source = "D"

\* C23 (agreement of the two resolution paths): while a drag of a drag item
\* is in flight, for every target and hovered element the evaluation that
\* reads the primary payload and the one that resolves the drag through the
\* side table give the same verdict.
C23_PathsAgree ==
    phase = "dragging"
    => \A c \in Containers, over \in Overs :
          allow_drop(c, over, TRUE) = allow_drop(c, over, FALSE)

\* C23: a drag from S is hovering over D, which accepts it, while the same
\* drag is refused over its own origin on both paths.
C23_Witness ==
    /\ phase = "dragging"
    /\ dt.source = "S"
    /\ lastEval.target = "D"
    /\ lastEval.allow
    /\ allow_drop("D", "self", TRUE) /\ allow_drop("D", "self", FALSE)
    /\ ~allow_drop("S", "child", TRUE) /\ ~allow_drop("S", "child", FALSE)

\* C25 (valid-drop marker): a container carries the valid-drop marker only
\* if the most recent evaluation of a drop on it allowed the drop and no
\* dragleave or drop on it has happened since.
C25_MarkerTracksVerdict ==
    \A c \in validDrop : lastEval.target = c /\ lastEval.allow

\* the drop on c takes the clone path: the candidate is not in the document
\* and its origin is
ClonePath(c) == drop(c) /\ EnabledGate(c) /\ ~InDocument(dt.text) /\ InDocument(dt.original)

\* C30 (grading markers stripped on cloning): after a drop that clones, the
\* origin carries none of the correct, incorrect and hint markers, and the
\* new item, when it is still in the document, carries none either.
C30_MarkersStripped ==
    [][\A c \in Containers :
          ClonePath(c)
          => /\ item'[dt.original].classes = {}
             /\ dt.text \in DOMAIN item' => item'[dt.text].classes = {}]_vars

\* C30: a clone was made of an origin that carried a marker in its Source,
\* and the clone is in the target.
C30_Witness ==
    /\ phase = "dropped"
    /\ InDocument(dt.original)
    /\ InDocument(dt.text)
    /\ dt.text # dt.original
    /\ purposeAttr[Parent(dt.original)] = "source"
    /\ \E n \in DOMAIN actions :
          /\ actions[n].input = dt.original
          /\ actions[n].graded
          /\ actions[n].action = "Add"
    /\ item[dt.original].classes = {}
    /\ item[dt.text].classes = {}

\* C24 (foreign drags): a drag whose transport has no ctat/group type is
\* denied by every evaluation, on every container, hovered element and
\* browser, whatever the container's state and the side table hold; no
\* container gets the valid-drop marker from it and no drop is delivered.
C24_ForeignDragsRejected ==
    /\ [](~FromDragSource
            => /\ \A c \in Containers, over \in Overs, direct \in BOOLEAN :
                     ~allow_drop(c, over, direct)
               /\ ~lastEval.allow
               /\ phase # "dropped")
    /\ [][\A c \in Containers, over \in Overs, direct \in BOOLEAN :
             (dragover(c, over, direct) /\ ~FromDragSource)
             => ~lastEval'.allow /\ validDrop' = validDrop]_vars

\* C24: a foreign drag carrying the id of a live item as its text hovers over
\* an enabled container of the document, after an earlier gesture of a drag
\* item; the evaluation was a denial.
C24_Witness ==
    /\ phase = "dragging"
    /\ ~FromDragSource
    /\ dt.text = IdX
    /\ InDocument(IdX)
    /\ lastEval.target = "D"
    /\ enabled["D"]
    /\ ~lastEval.allow
    /\ gestures = MaxGestures
    /\ actions # << >>

\* the drop on c is a commit: the container is enabled and the candidate or
\* its origin is in the document
Commit(c) == drop(c) /\ EnabledGate(c) /\ (InDocument(dt.text) \/ InDocument(dt.original))

\* C26 (commit into a Source): after a commit on a container whose purpose
\* is source, the dropped item is not in the document, the children of the
\* container are those it had before, and no action was recorded.
C26_SourceVoids ==
    [][\A c \in Containers :
          (Commit(c) /\ purposeAttr[c] = "source")
          => /\ dt.text \notin DOMAIN item'
             /\ \A k \in Containers : dt.text \notin Range(children'[k])
             /\ children'[c] = children[c]
             /\ actions' = actions]_vars

\* C26, as the code has it: after a commit on a container whose purpose is
\* source, the dropped item is not in the document, every container has the
\* children it had before except the dropped item, and no action was
\* recorded.
C26_SourceVoidsItem ==
    [][\A c \in Containers :
          (Commit(c) /\ purposeAttr[c] = "source")
          => /\ dt.text \notin DOMAIN item'
             /\ \A k \in Containers : children'[k] = Without(children[k], dt.text)
             /\ DOMAIN item' = DOMAIN item \ {dt.text}
             /\ actions' = actions]_vars

\* C26: a clone of the item of R was dropped on S, over the item of S; the
\* clone is gone and S holds its own item only.
C26_Witness ==
    /\ phase = "dropped"
    /\ lastEval.target = "S"
    /\ enabled["S"]
    /\ dt.source = "R"
    /\ dt.text # dt.original
    /\ InDocument(dt.original)
    /\ ~InDocument(dt.text)
    /\ children["S"] = <<IdX>>
    /\ actions = << >>

\* the element child nodes of an item
ElementKids(r) == {i \in DOMAIN r.kids : r.kids[i].node = "element"}

\* C27 (commit into a Destination): after a commit that records Add, the
\* dropped item has no grading marker, neither it nor any element of its
\* subtree is disabled, and the origin of a clone keeps its disabled flag
\* and its child nodes with theirs.
C27_DestinationPostcondition ==
    [][\A c \in Containers :
          (Commit(c) /\ Accepts(c))
          => /\ dt.text \in DOMAIN item'
             /\ item'[dt.text].classes = {}
             /\ ~item'[dt.text].disabled
             /\ \A i \in ElementKids(item'[dt.text]) : ~item'[dt.text].kids[i].disabled
             /\ (dt.text # dt.original /\ InDocument(dt.original))
                   => /\ item'[dt.original].disabled = item[dt.original].disabled
                      /\ item'[dt.original].kids = item[dt.original].kids]_vars

\* C27: a clone of the locked item of S, whose child input is disabled, was
\* dropped into the Destination F: the clone and its input are not disabled,
\* the origin and its input still are.
C27_Witness ==
    /\ phase = "dropped"
    /\ lastEval.target = "F"
    /\ dt.source = "S"
    /\ dt.original = IdX
    /\ InDocument(dt.text)
    /\ dt.text # IdX
    /\ item[IdX].disabled
    /\ \E i \in ElementKids(item[IdX]) : item[IdX].kids[i].disabled
    /\ Len(item[dt.text].kids) = Len(item[IdX].kids)
    /\ ~item[dt.text].disabled
    /\ \A i \in ElementKids(item[dt.text]) : ~item[dt.text].kids[i].disabled

\* child node a has the class, value and content of child node b
SameChild(a, b) == a.cls = b.cls /\ a.value = b.value /\ a.html = b.html

\* child node a is a copy of child node b (the destination branch may have
\* cleared its disabled flag since)
DeepCopy(a, b) == [a EXCEPT !.disabled = FALSE] = [b EXCEPT !.disabled = FALSE]

\* C29 (clone reconciliation): after a drop that clones, the new item, if
\* it is still in the document, has as many child nodes as the origin; if
\* its initialization built as many as the origin has, child i of the new
\* item is the initialized child with the class, value and content of child
\* i of the origin, otherwise the children of the new item are copies of the
\* origin's, in order; the origin's child nodes are unchanged.
C29_CloneReconciliation ==
    [][\A c \in Containers :
          ClonePath(c)
          => LET orig == item[dt.original]
             IN  /\ item'[dt.original].kids = orig.kids
                 /\ dt.text \in DOMAIN item'
                    => LET new == item'[dt.text]
                       IN  /\ Len(new.kids) = Len(orig.kids)
                           /\ LET built == DefaultKids(orig)
                              IN  IF Len(built) = Len(orig.kids)
                                  THEN \A i \in DOMAIN built :
                                          /\ SameChild(new.kids[i], orig.kids[i])
                                          /\ new.kids[i].node = built[i].node
                                          /\ new.kids[i].button = built[i].button
                                  ELSE \A i \in DOMAIN orig.kids :
                                          DeepCopy(new.kids[i], orig.kids[i])]_vars

\* C29: a clone of the component of S is in the document; its initialization
\* left as many child nodes as the origin has, and the child has the class,
\* value and content of the origin's while it is not disabled as the
\* origin's is.
C29_Witness ==
    /\ phase = "dropped"
    /\ dt.original = IdX
    /\ InDocument(dt.text)
    /\ dt.text # IdX
    /\ item[IdX].defaults = 1
    /\ Len(item[IdX].kids) = 1
    /\ Len(item[dt.text].kids) = 1
    /\ SameChild(item[dt.text].kids[1], item[IdX].kids[1])
    /\ item[IdX].kids[1].disabled
    /\ purposeAttr[lastEval.target] = "destination"

\* item k and the elements below it are disabled, buttons excepted
LockedTree(k) ==
    /\ item[k].disabled
    /\ \A i \in ElementKids(item[k]) : item[k].kids[i].button \/ item[k].kids[i].disabled

\* C28 (Source pools locked at initialization): once init() of every
\* container and the load callback have run, every child of every container
\* whose purpose is source is disabled with the elements below it, buttons
\* excepted.
C28_SourcePoolsLocked ==
    phase = "idle"
    => \A c \in Containers :
          get_purpose(c) = "source" => \A k \in Range(Elements(c)) : LockedTree(k)

\* C31 (cleanup): handle_drag_end removes the entries under the hashes the
\* transport names and nothing else: every other entry is as before, a
\* second run on the same transport changes nothing more (the entries are
\* absent then), and the children of the containers, the items and the
\* recorded actions are as before.
C31_CleanupIdempotent ==
    [][handle_drag_end
       => /\ hash(dt.text) \notin DOMAIN dragging'
          /\ DOMAIN dragging' = DOMAIN dragging \ {hash(dt.text)}
          /\ \A h \in DOMAIN dragging' : dragging'[h] = dragging[h]
          /\ Unregister(dragging', dt.ids) = dragging'
          /\ Unregister(Unregister(dragging, dt.ids), dt.ids) = Unregister(dragging, dt.ids)
          /\ children' = children
          /\ item' = item
          /\ actions' = actions]_vars

\* C31: a gesture has ended and the cleanup has left the entries of two
\* other drags in the table.
C31_Witness ==
    /\ phase = "idle"
    /\ gestures > 0
    /\ Cardinality(DOMAIN dragging) = 2
    /\ \A i \in Live : hash(i) \notin DOMAIN dragging

\* 31 * h + c of an integer h of 32 bits, reduced modulo 2^32 to the signed
\* range, computed on the two halves of 16 bits of h
Fold31Step(h, c) ==
    LET lo == h % 65536
        hi == (h \div 65536) % 65536
        low == 31 * lo + c
        high == (31 * hi + (low \div 65536)) % 65536
    IN  IF high >= 32768 THEN (high - 65536) * 65536 + (low % 65536)
        ELSE high * 65536 + (low % 65536)

\* the fold over the characters of s, from h
RECURSIVE Fold31(_, _)
Fold31(h, s) == IF s = << >> THEN h ELSE Fold31(Fold31Step(h, Head(s)), Tail(s))

\* the strings the handlers have hashed or may hash in this state
Hashed == Live \cup {dt.text} \cup {dragging[h].id : h \in DOMAIN dragging}

\* C32 (identity hash): hash(s) is the fold h := 31*h + code(c) from 0,
\* reduced modulo 2^32 to a signed integer of 32 bits, for every id in use;
\* it lies in [-2^31, 2^31 - 1], an entry of the side table is found again
\* under the hash of its id, and the hash of the empty string is 0.
C32_HashIsFold ==
    /\ hash(<< >>) = 0
    /\ \A s \in Hashed :
          /\ hash(s) = Fold31(0, s)
          /\ hash(s) >= MinInt32
          /\ hash(s) <= MaxInt32
    /\ \A h \in DOMAIN dragging : hash(dragging[h].id) = h

\* C32: a clone id of the longest length is registered under its hash, which
\* has wrapped around to a negative number.
C32_Witness ==
    /\ phase = "dragging"
    /\ Len(dt.text) = MaxIdLen + 3
    /\ hash(dt.text) < 0
    /\ hash(dt.text) \in DOMAIN dragging
    /\ dragging[hash(dt.text)].id = dt.text

\* C33 (cardinality as an invariant): a container whose limit is a number
\* L >= 0 never has more than L element children.
C33_CardinalityInvariant ==
    \A c \in Containers :
        (~isNaN(maxCardinality[c]) /\ parseInt(maxCardinality[c]) >= 0)
        => Len(Elements(c)) <= parseInt(maxCardinality[c])

\* C34 (group membership): every item descends from the item of S, and is a
\* child of a container whose group is that of S; a drop puts the dropped
\* item into a container of the group the transport was given at dragstart.
C34_GroupPreserved ==
    /\ [](\A id \in Live : groupname[Parent(id)] = groupname["S"])
    /\ [][\A c \in Containers :
             (drop(c) /\ dt.text \in DOMAIN item')
             => groupname[ParentIn(children', dt.text)] = dt.group]_vars

\* C34: the pointer is over E, of the other group, which has refused the
\* drag; an earlier gesture has put a clone into D.
C34_Witness ==
    /\ phase = "dragging"
    /\ lastEval = [target |-> "E", allow |-> FALSE]
    /\ groupname["E"] # dt.group
    /\ \E id \in Live : Parent(id) = "D" /\ id # IdX
    /\ children["E"] = << >>

\* C35 (side table and gestures): the side table holds at most one entry,
\* and none while no gesture is in progress; every gesture in progress
\* leads to a state without gesture and with an empty side table.
C35_SideTableEmptyWhenIdle ==
    /\ [](Cardinality(DOMAIN dragging) <= 1)
    /\ [](phase = "idle" => DOMAIN dragging = {})
    /\ (phase # "idle") ~> (phase = "idle" /\ DOMAIN dragging = {})

\* C35: the last gesture, which dropped an item, has ended; the side table
\* is empty.
C35_Witness ==
    /\ phase = "idle"
    /\ gestures = MaxGestures
    /\ Len(actions) = MaxGestures
    /\ DOMAIN dragging = {}

\* C36 (evaluation only reads): a dragover on container c, whatever its
\* verdict, leaves the children of every container, the items with their
\* draggable flags, the side table, the enabled flags, the recorded actions
\* and the running removals as they are, and the valid-drop marker of every
\* container but c.
C36_EvaluateOnlyReads ==
    [][\A c \in Containers, over \in Overs, direct \in BOOLEAN :
          dragover(c, over, direct)
          => /\ children' = children
             /\ item' = item
             /\ dragging' = dragging
             /\ enabled' = enabled
             /\ actions' = actions
             /\ pending' = pending
             /\ gensym' = gensym
             /\ validDrop' \ {c} = validDrop \ {c}]_vars

\* C36: an allowing dragover on F has marked F and nothing else, with an
\* entry in the side table and an action of an earlier gesture recorded.
C36_Witness ==
    /\ phase = "dragging"
    /\ lastEval = [target |-> "F", allow |-> TRUE]
    /\ validDrop = {"F"}
    /\ DOMAIN dragging # {}
    /\ actions # << >>

\* C37 (deferred eviction under interleaving): the end of a removal
\* animation that a commit into D started takes the doomed child out of D,
\* where it still is, and out of D only, and no animation ends in an error.
C37_EvictionSafe ==
    /\ []("animatedRemove" \notin errors)
    /\ [][animatedRemoveDone
          => /\ Head(pending) \in Range(children["D"])
             /\ children' = [children EXCEPT !["D"] = Without(@, Head(pending))]]_vars

\* the drop on c is a commit into a container of one of the purposes ps
CommitInto(c, ps) == drop(c) /\ EnabledGate(c) /\ purposeAttr[c] \in ps

\* C38 (item count): over gestures, a commit of a clone into a Destination
\* adds the clone to the live items, a commit of a clone into a Trashcan or
\* a Source leaves them as they are, and so does a drop whose item and
\* origin are both gone; a commit of an item of the document
\* into a Trashcan or a Source removes it, into a Destination leaves them as
\* they are; the end of an eviction removes the doomed item if it is still
\* there; dragstart, dragover, dragleave and dragend leave them as they are;
\* and no step changes the children of a Source.
C38_ItemCount ==
    [][/\ \A c \in Containers :
             /\ (CommitInto(c, {"destination", ""}) /\ ClonePath(c))
                   => /\ DOMAIN item' = Live \cup {dt.text}
                      /\ Cardinality(DOMAIN item') = Cardinality(Live) + 1
             /\ (CommitInto(c, {"trashcan", "source"}) /\ ClonePath(c))
                   => DOMAIN item' = Live
             /\ (drop(c) /\ ~InDocument(dt.text) /\ ~InDocument(dt.original))
                   => DOMAIN item' = Live
             /\ (CommitInto(c, {"trashcan", "source"}) /\ InDocument(dt.text))
                   => /\ DOMAIN item' = Live \ {dt.text}
                      /\ Cardinality(DOMAIN item') = Cardinality(Live) - 1
             /\ (CommitInto(c, {"destination", ""}) /\ InDocument(dt.text))
                   => DOMAIN item' = Live
             /\ purposeAttr[c] = "source" => children'[c] = children[c]
       /\ animatedRemoveDone => DOMAIN item' = Live \ {Head(pending)}
       /\ ( \/ \E i \in Live : handle_drag_start(i)
            \/ \E c \in Containers, over \in Overs, direct \in BOOLEAN :
                  dragover(c, over, direct)
            \/ \E c \in Containers : dragleave(c)
            \/ handle_drag_end )
          => DOMAIN item' = Live]_vars

\* C38: after two gestures the page has its one item again: a clone was made
\* in D and then moved from D into the Source S, over its child, which
\* removed it, and S has the child it started with.
C38_Witness ==
    /\ phase = "dropped"
    /\ gestures = 2
    /\ purposeAttr[lastEval.target] = "source"
    /\ dt.text = dt.original
    /\ dt.source = "D"
    /\ Live = {IdX}
    /\ children["S"] = <<IdX>>
    /\ Len(actions) = 1

\* C39 (correct feedback re-enables): after showCorrect of an "Add" action
\* on container c, c is enabled and each of its children is draggable,
\* except, under the lock-on-correct policy, the children marked correct.
C39_CorrectReenables ==
    [][\A c \in Containers, n \in DOMAIN actions :
          (showCorrect(c, n) /\ actions[n].action = "Add")
          => /\ enabled'[c]
             /\ \A k \in Range(ElementsOf(children', c)) :
                   \/ item'[k].draggable
                   \/ disableOnCorrect /\ "CTAT--correct" \in item'[k].classes]_vars

\* C39: after a gesture and two calls of the host on D, which then held two
\* items, the "Add" of D was graded correct without the lock-on-correct
\* policy: D is enabled and both children are draggable.
C39_Witness ==
    /\ ~disableOnCorrect
    /\ calls = MaxCalls
    /\ enabled["D"]
    /\ Len(Elements("D")) = 2
    /\ \A k \in Range(Elements("D")) : item[k].draggable
    /\ \E n \in DOMAIN actions :
          /\ actions[n].selection = "D"
          /\ actions[n].action = "Add"
          /\ actions[n].graded
          /\ actions[n].input \in Range(Elements("D"))
          /\ item[actions[n].input].classes = {"CTAT--correct"}
    /\ gestures = 1

\* C40 (draggability mirrors enablement): no child of a disabled container
\* is draggable (a container is disabled by setEnabled only).
C40_DraggableMirrorsEnabled ==
    \A c \in Containers :
        ~enabled[c] => \A k \in Range(Elements(c)) : ~item[k].draggable

=============================================================================
